---- MODULE Spec2Model ----
(***************************************************************************)
(* The two feature scalers of mlpack/core/data/scaler_methods:             *)
(*   MeanNormalization  (meannormalization.hpp)                            *)
(*   MinMaxScaler       (minmaxscaler.hpp)                                 *)
(* A caller owns three matrices M (data), T and R, constructs one scaler,  *)
(* and calls Transform and InverseTransform on it.                         *)
(* Input and output of a call are always distinct matrices: Transform     *)
(* reads M and writes T or R, InverseTransform reads T and writes R.       *)
(*                                                                         *)
(* Doubles are modelled as exact extended rationals <<n, d>>:              *)
(*   d > 0   the finite value n/d in lowest terms,                         *)
(*   <<1,0>> +inf,  <<-1,0>> -inf,  <<0,0>> NaN   (IEEE-754 specials),     *)
(*   <<0,-1>> the indeterminate content of storage no statement has        *)
(*            written since it was (re)allocated.                          *)
(* Rounding is not modelled: the arithmetic is that of the reals, extended *)
(* by the IEEE rules for division by zero, infinities and NaN.             *)
(***************************************************************************)
EXTENDS Integers, Sequences, FiniteSets, TLC

\* ---------------------------------------------------------------- bounds
MaxRows  == 2
MaxCols  == 3
MaxCells == 4
MaxVal   == 2
MaxRange == 2
MaxCalls == 3

\* ------------------------------------------------------------ arithmetic
Abs(n) == IF n < 0 THEN 0 - n ELSE n

Sgn(n) == IF n < 0 THEN 0 - 1 ELSE IF n > 0 THEN 1 ELSE 0

RECURSIVE GCD(_, _)
GCD(a, b) == IF b = 0 THEN a ELSE GCD(b, a % b)

\* n/d for integers n, d: lowest terms, positive denominator; d = 0 gives
\* the IEEE result of dividing n by (positive) zero.
Norm(n, d) ==
  IF d = 0 THEN <<Sgn(n), 0>>
  ELSE LET g == GCD(Abs(n), Abs(d))
           s == Sgn(d)
       IN  <<(s * n) \div g, (s * d) \div g>>

Q(n) == <<n, 1>>
Zero == <<0, 1>>
One == <<1, 1>>
NaN == <<0, 0>>
Indeterminate == <<0, 0 - 1>>

IsNaN(a) == a = NaN
IsInf(a) == a[2] = 0 /\ a[1] # 0
IsFin(a) == a[2] > 0

\* C++ operator== on doubles: never true of a NaN.
FEq(a, b) == ~IsNaN(a) /\ ~IsNaN(b) /\ a = b

\* C++ operator< on doubles: false whenever a NaN is involved.
Lt(a, b) ==
  IF IsNaN(a) \/ IsNaN(b) THEN FALSE
  ELSE IF IsInf(a) THEN a[1] < 0 /\ b # a
  ELSE IF IsInf(b) THEN b[1] > 0
  ELSE a[1] * b[2] < b[1] * a[2]

Le(a, b) == Lt(a, b) \/ FEq(a, b)

Neg(a) == <<0 - a[1], a[2]>>

Add(a, b) ==
  IF IsNaN(a) \/ IsNaN(b) THEN NaN
  ELSE IF IsInf(a) THEN (IF IsInf(b) /\ b # a THEN NaN ELSE a)
  ELSE IF IsInf(b) THEN b
  ELSE Norm(a[1] * b[2] + b[1] * a[2], a[2] * b[2])

Sub(a, b) == Add(a, Neg(b))

Mul(a, b) ==
  IF IsNaN(a) \/ IsNaN(b) THEN NaN
  ELSE IF IsInf(a) \/ IsInf(b)
       THEN (IF a[1] = 0 \/ b[1] = 0 THEN NaN ELSE <<Sgn(a[1]) * Sgn(b[1]), 0>>)
  ELSE Norm(a[1] * b[1], a[2] * b[2])

Div(a, b) ==
  IF IsNaN(a) \/ IsNaN(b) THEN NaN
  ELSE IF IsInf(a)
       THEN (IF IsInf(b) THEN NaN
             ELSE <<Sgn(a[1]) * (IF b[1] < 0 THEN 0 - 1 ELSE 1), 0>>)
  ELSE IF IsInf(b) THEN Zero
  ELSE Norm(a[1] * b[2], a[2] * b[1])

\* -------------------------------------------------------------- matrices
\* A matrix is the sequence of its rows (features); a row is the sequence
\* of its entries, one per column (observation).
Empty == <<>>
n_rows(m) == Len(m)
n_cols(m) == IF Len(m) = 0 THEN 0 ELSE Len(m[1])

Vals == {Q(v) : v \in 0..MaxVal}

Shapes == {s \in (1..MaxRows) \X (1..MaxCols) : s[1] * s[2] <= MaxCells}

Inputs == UNION {[1..s[1] -> [1..s[2] -> Vals]] : s \in Shapes}

Ranges == (0..MaxRange) \X (0..MaxRange)

\* The datasets of the runs in which the caller edits its data: the inputs
\* whose entries are all 0 or MaxVal.
SeqInputs ==
  {m \in Inputs : \A i \in DOMAIN m : \A j \in DOMAIN m[i] : m[i][j] \in {Zero, Q(MaxVal)}}

\* Values an out-of-bounds read of a vector can yield.
Garbage == {Zero, One, NaN}

\* ------------------------------------------------------- armadillo pieces
\* Mutant: the output is sized only when it is empty.
CopySizeIfEmpty(output, input) ==
  LET shape == IF output = Empty THEN input ELSE output
  IN  [i \in 1..n_rows(shape) |-> [j \in 1..n_cols(shape) |-> Indeterminate]]

\* output.copy_size(input): the output takes the input's dimensions; what
\* its storage holds afterwards is not specified until it is written.
CopySize(output, input) ==
  [i \in 1..n_rows(input) |-> [j \in 1..n_cols(input) |-> Indeterminate]]

RECURSIVE MinFrom(_, _, _)
MinFrom(row, k, best) ==
  IF k > Len(row) THEN best
  ELSE MinFrom(row, k + 1, IF Lt(row[k], best) THEN row[k] ELSE best)

RECURSIVE MaxFrom(_, _, _)
MaxFrom(row, k, best) ==
  IF k > Len(row) THEN best
  ELSE MaxFrom(row, k + 1, IF Lt(best, row[k]) THEN row[k] ELSE best)

RECURSIVE SumFrom(_, _, _)
SumFrom(row, k, acc) ==
  IF k > Len(row) THEN acc ELSE SumFrom(row, k + 1, Add(acc, row[k]))

\* Mutant: the mean divides by the number of rows, not of columns.
ArmaMeanWrongDim(input) ==
  [i \in 1..n_rows(input) |-> Div(SumFrom(input[i], 1, Zero), Q(n_rows(input)))]

\* arma::min(input, 1), arma::max(input, 1), arma::mean(input, 1): one
\* entry per row.
ArmaMin(input) == [i \in 1..n_rows(input) |-> MinFrom(input[i], 2, input[i][1])]
ArmaMax(input) == [i \in 1..n_rows(input) |-> MaxFrom(input[i], 2, input[i][1])]
ArmaMean(input) ==
  [i \in 1..n_rows(input) |-> Div(SumFrom(input[i], 1, Zero), Q(Len(input[i])))]

\* Mutant: zero entries are left in the scale vector.
HandleZeroesNot(scale) == scale

\* "Handline Zeroes in scale vector": the loop over scale.n_elem.
HandleZeroes(scale) ==
  [i \in 1..Len(scale) |-> IF FEq(scale[i], Zero) THEN One ELSE scale[i]]

\* vec(i) for a read that may lie past the end of vec: g is what the read
\* yields then.
At(vec, i, g) == IF i \in 1..Len(vec) THEN vec[i] ELSE g

\* The outcomes of InverseTransform reading its statistic vectors at row
\* indices they do not have: none when every row is covered; otherwise the
\* bounds check throws (Indeterminate: the rows from there on stay as
\* copy_size left them) or, in a build without bounds checks, the read
\* yields some value.
OobOutcomes(vec, input) ==
  IF n_rows(input) <= Len(vec) THEN {Zero} ELSE Garbage \cup {Indeterminate}

Threw(vec, input, g) == n_rows(input) > Len(vec) /\ g = Indeterminate

\* ------------------------------------------------------ MeanNormalization
MNNew == [itemMean |-> <<>>, itemMin |-> <<>>, itemMax |-> <<>>, scale |-> <<>>]

MNScale(itemMin, itemMax) ==
  HandleZeroes([i \in 1..Len(itemMax) |-> Sub(itemMax[i], itemMin[i])])

\* Mutant: minima, maxima and scale are merged with those of the call
\* before when the number of rows is the same.
MNFitMerged(self, input) ==
  LET merge == Len(self.itemMin) = n_rows(input)
      new == ArmaMin(input)
      lo == [i \in 1..n_rows(input) |->
               IF merge /\ Lt(self.itemMin[i], new[i]) THEN self.itemMin[i] ELSE new[i]]
      hi == ArmaMax(input)
  IN  [self EXCEPT !.itemMean = ArmaMean(input), !.itemMin = lo, !.itemMax = hi,
                   !.scale = MNScale(lo, hi)]

MNFit(self, input) ==
  LET lo == ArmaMin(input)
      hi == ArmaMax(input)
  IN  [self EXCEPT !.itemMean = ArmaMean(input), !.itemMin = lo, !.itemMax = hi,
                   !.scale = MNScale(lo, hi)]

\* Mutant: the centred entry is not divided by the scale.
MNForwardUnscaled(st, x, i) == Sub(x, st.itemMean[i])

MNForward(st, x, i) == Div(Sub(x, st.itemMean[i]), st.scale[i])

MNTransformOut(st, input, output) ==
  LET out0 == CopySize(output, input)
  IN  [i \in 1..n_rows(out0) |-> [j \in 1..n_cols(out0) |->
         IF i <= n_rows(input) /\ j <= n_cols(input)
         THEN MNForward(st, input[i][j], i) ELSE out0[i][j]]]

\* Mutant: the entry is not multiplied by the scale.
MNBackwardUnscaled(scale_i, mean_i, x) == Add(x, mean_i)

MNBackward(scale_i, mean_i, x) == Add(Mul(x, scale_i), mean_i)

MNInverseOut(st, input, output, g) ==
  LET out0 == CopySize(output, input)
  IN  [i \in 1..n_rows(out0) |-> [j \in 1..n_cols(out0) |->
         IF i <= n_rows(input) /\ j <= n_cols(input)
            /\ ~(i > Len(st.scale) /\ g = Indeterminate)
         THEN MNBackward(At(st.scale, i, g), At(st.itemMean, i, g), input[i][j])
         ELSE out0[i][j]]]

\* ----------------------------------------------------------- MinMaxScaler
MMNew(min, max) ==
  [itemMin |-> <<>>, itemMax |-> <<>>, scale |-> <<>>,
   scalemin |-> Q(min), scalemax |-> Q(max)]

\* Mutant: the zeroes are handled in the feature ranges, before the division.
MMScaleRangeGuarded(scalemin, scalemax, itemMin, itemMax) ==
  LET range == HandleZeroes([i \in 1..Len(itemMax) |-> Sub(itemMax[i], itemMin[i])])
  IN  [i \in 1..Len(itemMax) |-> Div(Sub(scalemax, scalemin), range[i])]

MMScale(scalemin, scalemax, itemMin, itemMax) ==
  HandleZeroes([i \in 1..Len(itemMax) |->
     Div(Sub(scalemax, scalemin), Sub(itemMax[i], itemMin[i]))])

\* Mutant: Transform puts the bounds of the range in order.
MMFitOrdered(self, input) ==
  LET lo == ArmaMin(input)
      hi == ArmaMax(input)
      smin == IF Lt(self.scalemax, self.scalemin) THEN self.scalemax ELSE self.scalemin
      smax == IF Lt(self.scalemax, self.scalemin) THEN self.scalemin ELSE self.scalemax
  IN  [self EXCEPT !.itemMin = lo, !.itemMax = hi, !.scalemin = smin, !.scalemax = smax,
                   !.scale = MMScale(smin, smax, lo, hi)]

MMFit(self, input) ==
  LET lo == ArmaMin(input)
      hi == ArmaMax(input)
  IN  [self EXCEPT !.itemMin = lo, !.itemMax = hi,
                   !.scale = MMScale(self.scalemin, self.scalemax, lo, hi)]

\* Mutant: scalemin is not added.
MMForwardNoOffset(st, x, i) ==
  Sub(Mul(st.scale[i], x), Mul(st.itemMin[i], st.scale[i]))

MMForward(st, x, i) ==
  Sub(Add(Mul(st.scale[i], x), st.scalemin), Mul(st.itemMin[i], st.scale[i]))

MMTransformOut(st, input, output) ==
  LET out0 == CopySize(output, input)
  IN  [i \in 1..n_rows(out0) |-> [j \in 1..n_cols(out0) |->
         IF i <= n_rows(input) /\ j <= n_cols(input)
         THEN MMForward(st, input[i][j], i) ELSE out0[i][j]]]

MMBackward(scalemin, scale_i, min_i, x) ==
  Div(Add(Sub(x, scalemin), Mul(min_i, scale_i)), scale_i)

MMInverseOut(st, input, output, g) ==
  LET out0 == CopySize(output, input)
  IN  [i \in 1..n_rows(out0) |-> [j \in 1..n_cols(out0) |->
         IF i <= n_rows(input) /\ j <= n_cols(input)
            /\ ~(i > Len(st.scale) /\ g = Indeterminate)
         THEN MMBackward(st.scalemin, At(st.scale, i, g), At(st.itemMin, i, g),
                         input[i][j])
         ELSE out0[i][j]]]

\* ------------------------------------------------------------------ state
VARIABLES
  inst,   \* which scaler the caller constructed: "mn" or "mm"
  mn,     \* the MeanNormalization instance
  mm,     \* the MinMaxScaler instance
  M,      \* caller's data matrix: the input of Transform
  T,      \* caller's matrix: an output of Transform, the input of InverseTransform
  R,      \* caller's matrix: an output of Transform or of InverseTransform
  last,   \* history: the last operation, its output parameter, whether it threw
  fit,    \* history: input and output of the latest Transform
  calls   \* number of Transform / InverseTransform calls made

vars == <<inst, mn, mm, M, T, R, last, fit, calls>>

Init ==
  /\ inst \in {"mn", "mm"}
  /\ mn = MNNew
  /\ \E r \in (IF inst = "mm" THEN Ranges ELSE {<<0, 1>>}) : mm = MMNew(r[1], r[2])
  /\ M \in Inputs
  /\ T = Empty
  /\ R = Empty
  /\ last = [op |-> "new", dst |-> "-", threw |-> FALSE]
  /\ fit = [input |-> Empty, output |-> Empty]
  /\ calls = 0

\* Between two calls the caller drops the last feature of its data:
\* M.shed_row(M.n_rows - 1).
ShedRow ==
  /\ n_rows(M) > 1
  /\ calls < MaxCalls
  /\ M' = SubSeq(M, 1, n_rows(M) - 1)
  /\ last' = [op |-> "edit", dst |-> "M", threw |-> FALSE]
  /\ UNCHANGED <<inst, mn, mm, T, R, fit, calls>>

\* Between two calls the caller drops the last observation of its data:
\* M.shed_col(M.n_cols - 1).
ShedCol ==
  /\ n_cols(M) > 1
  /\ calls < MaxCalls
  /\ M' = [i \in 1..n_rows(M) |-> SubSeq(M[i], 1, n_cols(M) - 1)]
  /\ last' = [op |-> "edit", dst |-> "M", threw |-> FALSE]
  /\ UNCHANGED <<inst, mn, mm, T, R, fit, calls>>

Old(dst) == IF dst = "T" THEN T ELSE R

Put(dst, out) ==
  /\ T' = IF dst = "T" THEN out ELSE T
  /\ R' = IF dst = "R" THEN out ELSE R

\* mn.Transform(M, dst)
MNTransform(dst) ==
  /\ inst = "mn"
  /\ calls < MaxCalls
  /\ LET st == MNFit(mn, M)
         out == MNTransformOut(st, M, Old(dst))
     IN  /\ mn' = st
         /\ Put(dst, out)
         /\ fit' = [input |-> M, output |-> out]
  /\ last' = [op |-> "T", dst |-> dst, threw |-> FALSE]
  /\ calls' = calls + 1
  /\ UNCHANGED <<inst, mm, M>>

\* mn.InverseTransform(T, R)
MNInverseTransform(g) ==
  /\ inst = "mn"
  /\ calls < MaxCalls
  /\ R' = MNInverseOut(mn, T, R, g)
  /\ last' = [op |-> "I", dst |-> "R", threw |-> Threw(mn.scale, T, g)]
  /\ calls' = calls + 1
  /\ UNCHANGED <<inst, mn, mm, M, T, fit>>

\* mm.Transform(M, dst)
MMTransform(dst) ==
  /\ inst = "mm"
  /\ calls < MaxCalls
  /\ LET st == MMFit(mm, M)
         out == MMTransformOut(st, M, Old(dst))
     IN  /\ mm' = st
         /\ Put(dst, out)
         /\ fit' = [input |-> M, output |-> out]
  /\ last' = [op |-> "T", dst |-> dst, threw |-> FALSE]
  /\ calls' = calls + 1
  /\ UNCHANGED <<inst, mn, M>>

\* mm.InverseTransform(T, R)
MMInverseTransform(g) ==
  /\ inst = "mm"
  /\ calls < MaxCalls
  /\ R' = MMInverseOut(mm, T, R, g)
  /\ last' = [op |-> "I", dst |-> "R", threw |-> Threw(mm.scale, T, g)]
  /\ calls' = calls + 1
  /\ UNCHANGED <<inst, mn, mm, M, T, fit>>

Next ==
  \/ \E dst \in {"T", "R"} : MNTransform(dst)
  \/ \E g \in OobOutcomes(mn.scale, T) : MNInverseTransform(g)
  \/ \E dst \in {"T", "R"} : MMTransform(dst)
  \/ \E g \in OobOutcomes(mm.scale, T) : MMInverseTransform(g)

\* One dataset: the scaler is fitted to and applied on the same M.
Spec == Init /\ [][Next]_vars

\* Runs in which the caller also shrinks its data between calls, so that
\* later calls see other values and other dimensions.
InitSeq == Init /\ M \in SeqInputs

NextSeq ==
  \/ Next
  \/ ShedRow
  \/ ShedCol

SpecSeq == InitSeq /\ [][NextSeq]_vars

\* ---------------------------------------------------- vocabulary of claims
\* The input and the output parameter of the call that was made last.
In == IF last.op = "T" THEN M ELSE T
Out == IF last.dst = "T" THEN T ELSE R

SameShape(a, b) == n_rows(a) = n_rows(b) /\ n_cols(a) = n_cols(b)

ConstantRow(row) == \A j, k \in DOMAIN row : row[j] = row[k]
NoConstantRow(m) == \A i \in DOMAIN m : ~ConstantRow(m[i])

\* v is the least (greatest) entry of row.
IsRowMin(row, v) == (\E j \in DOMAIN row : row[j] = v) /\ (\A j \in DOMAIN row : Le(v, row[j]))
IsRowMax(row, v) == (\E j \in DOMAIN row : row[j] = v) /\ (\A j \in DOMAIN row : Le(row[j], v))

RECURSIVE RowSum(_)
RowSum(row) == IF row = <<>> THEN Zero ELSE Add(Head(row), RowSum(Tail(row)))

Within(x, lo, hi) == Le(lo, x) /\ Le(x, hi)

\* The instance in use, as the accessors show it.
Scale == IF inst = "mn" THEN mn.scale ELSE mm.scale
ItemMin == IF inst = "mn" THEN mn.itemMin ELSE mm.itemMin
ItemMax == IF inst = "mn" THEN mn.itemMax ELSE mm.itemMax

\* ------------------------------------------------------------------- C1
\* C1: round trip.  When InverseTransform has just been applied to the
\* output of the instance's latest Transform, and no row of that
\* Transform's input is constant, the result equals that input entry for
\* entry (both classes).
C1_RoundTrip ==
  (last.op = "I" /\ T = fit.output /\ n_rows(fit.input) > 0
     /\ NoConstantRow(fit.input))
  => R = fit.input

C1_Witness ==
  /\ last.op = "I" /\ T = fit.output /\ inst = "mm"
  /\ n_rows(fit.input) = 2 /\ NoConstantRow(fit.input)
  /\ R = fit.input /\ R # T

\* ------------------------------------------------------------------- C2
\* C2 as stated: after MinMaxScaler.Transform, for every input and every
\* configured range, every output entry lies in [scalemin, scalemax] and
\* each output row has minimum scalemin and maximum scalemax.  It is taken
\* here on the rows that are not constant only: what Transform makes of a
\* constant row is the subject of C3.
C2_Original ==
  (inst = "mm" /\ last.op = "T")
  => \A i \in DOMAIN Out :
       ~ConstantRow(M[i])
       => /\ \A j \in DOMAIN Out[i] : Within(Out[i][j], mm.scalemin, mm.scalemax)
          /\ IsRowMin(Out[i], mm.scalemin)
          /\ IsRowMax(Out[i], mm.scalemax)

\* C2 amended: the range property holds for a range with
\* scalemin < scalemax and for every row of the input that is not constant.
C2_RangeProperty ==
  (inst = "mm" /\ last.op = "T" /\ Lt(mm.scalemin, mm.scalemax))
  => \A i \in DOMAIN Out :
       ~ConstantRow(M[i])
       => /\ \A j \in DOMAIN Out[i] : Within(Out[i][j], mm.scalemin, mm.scalemax)
          /\ IsRowMin(Out[i], mm.scalemin)
          /\ IsRowMax(Out[i], mm.scalemax)

C2_Witness ==
  /\ inst = "mm" /\ last.op = "T" /\ mm.scalemin = One /\ mm.scalemax = Q(2)
  /\ \E i \in DOMAIN Out :
       /\ IsRowMin(Out[i], One) /\ IsRowMax(Out[i], Q(2))
       /\ \E j \in DOMAIN Out[i] : Lt(One, Out[i][j]) /\ Lt(Out[i][j], Q(2))

\* ------------------------------------------------------------------- C3
\* C3 as stated: after MinMaxScaler.Transform, a constant row of the input
\* has scale 1 and every output entry of that row is
\* input + scalemin - min = scalemin.
C3_DegenerateMinMax ==
  (inst = "mm" /\ last.op = "T")
  => \A i \in DOMAIN M :
       ConstantRow(M[i])
       => /\ mm.scale[i] = One
          /\ \A j \in DOMAIN M[i] : Out[i][j] = mm.scalemin

\* ------------------------------------------------------------------- C4
\* C4: after MeanNormalization.Transform there is one scale entry per row,
\* none is zero, scale_i is max_i - min_i when that is nonzero and 1
\* otherwise, and a constant input row gives an all-zero output row.
C4_DegenerateMean ==
  (inst = "mn" /\ last.op = "T")
  => /\ Len(mn.scale) = n_rows(M)
     /\ \A i \in DOMAIN M :
          \E lo, hi \in {M[i][j] : j \in DOMAIN M[i]} :
            /\ IsRowMin(M[i], lo) /\ IsRowMax(M[i], hi)
            /\ mn.scale[i] # Zero
            /\ mn.scale[i] = (IF Sub(hi, lo) # Zero THEN Sub(hi, lo) ELSE One)
            /\ ConstantRow(M[i]) => \A j \in DOMAIN Out[i] : Out[i][j] = Zero

C4_Witness ==
  /\ inst = "mn" /\ last.op = "T" /\ n_rows(M) = 2
  /\ ConstantRow(M[1]) /\ M[1][1] = Q(2) /\ ~ConstantRow(M[2])
  /\ mn.scale = <<One, Q(2)>>
  /\ Out[1] = <<Zero, Zero>>

\* ------------------------------------------------------------------- C5
\* C5: after MeanNormalization.Transform every output row sums to 0.
C5_Centering ==
  (inst = "mn" /\ last.op = "T")
  => \A i \in DOMAIN Out : RowSum(Out[i]) = Zero

C5_Witness ==
  /\ inst = "mn" /\ last.op = "T"
  /\ \E i \in DOMAIN Out :
       /\ Len(Out[i]) = 3 /\ ~ConstantRow(Out[i])
       /\ Out[i][1] = Out[i][2]
       /\ RowSum(Out[i]) = Zero

\* ------------------------------------------------------------------- C9
\* C9: after MeanNormalization.Transform every output entry lies in [-1, 1].
C9_MeanBound ==
  (inst = "mn" /\ last.op = "T")
  => \A i \in DOMAIN Out : \A j \in DOMAIN Out[i] : Within(Out[i][j], Q(0 - 1), One)

C9_Witness ==
  /\ inst = "mn" /\ last.op = "T"
  /\ \E i \in DOMAIN Out : \E j \in DOMAIN Out[i] :
       Lt(Q(0 - 1), Out[i][j]) /\ Lt(Out[i][j], One) /\ Lt(Norm(1, 2), Out[i][j])

\* ------------------------------------------------------------------ C10
\* C10: with scalemin = scalemax, a row that is not constant gets scale 1
\* (0 replaced by 1), Transform shifts it by scalemin - min_i, and
\* InverseTransform of that output gives the row back.
C10_EqualRange ==
  (inst = "mm" /\ mm.scalemin = mm.scalemax)
  => /\ last.op = "T"
        => \A i \in DOMAIN M :
             ~ConstantRow(M[i])
             => \E lo \in {M[i][j] : j \in DOMAIN M[i]} :
                  /\ IsRowMin(M[i], lo)
                  /\ mm.scale[i] = One
                  /\ \A j \in DOMAIN M[i] :
                       Out[i][j] = Add(Sub(M[i][j], lo), mm.scalemin)
     /\ (last.op = "I" /\ T = fit.output)
        => \A i \in DOMAIN fit.input :
             ~ConstantRow(fit.input[i]) => R[i] = fit.input[i]

C10_Witness ==
  /\ inst = "mm" /\ mm.scalemin = One /\ mm.scalemax = One
  /\ last.op = "I" /\ T = fit.output
  /\ \E i \in DOMAIN fit.input :
       /\ ~ConstantRow(fit.input[i])
       /\ R[i] = fit.input[i]
       /\ ~ConstantRow(T[i])
       /\ IsRowMin(T[i], One)

\* ------------------------------------------------------------------- C6
\* What a fresh instance computes from the input of the latest Transform.
FreshMN == MNFit(MNNew, fit.input)
FreshMM ==
  MMFit([mm EXCEPT !.itemMin = <<>>, !.itemMax = <<>>, !.scale = <<>>], fit.input)

C7_Frame ==
  [][ calls' = calls + 1
      => /\ mm'.scalemin = mm.scalemin /\ mm'.scalemax = mm.scalemax
         /\ M' = M
         /\ last'.op = "I" => mn' = mn /\ mm' = mm /\ T' = T
         /\ last'.op = "T" => (last'.dst = "T" => R' = R) /\ (last'.dst = "R" => T' = T)
    ]_vars

\* An InverseTransform of a fitted instance wrote R and a Transform into T
\* came before: statistics, range, M and T are there to be kept.
C7_Witness ==
  /\ last.op = "I" /\ calls = 3 /\ inst = "mm"
  /\ Len(mm.scale) = 2 /\ n_rows(T) = 2 /\ R # T /\ R # Empty
  /\ mm.scalemin = One /\ mm.scalemax = Q(2)

\* ------------------------------------------------------------------- C8
Written(m) == \A i \in DOMAIN m : \A j \in DOMAIN m[i] : m[i][j] # Indeterminate

\* C8 as stated: after every call the output has the input's dimensions
\* and every entry of the output was written by the call.
C8_Original ==
  last.op \in {"T", "I"} => SameShape(Out, In) /\ Written(Out)

\* C8 amended: after every call the output has the input's dimensions;
\* every entry of it was written by the call if the call was a Transform,
\* or an InverseTransform whose input has no more rows than the statistic
\* vectors have entries.
C8_Dimensions ==
  last.op \in {"T", "I"}
  => /\ SameShape(Out, In)
     /\ (last.op = "T" \/ n_rows(In) <= Len(Scale)) => Written(Out)

\* The third call of a run, a Transform into R, which held a matrix of
\* another shape before: T holds the output of a Transform before the data
\* shrank.
C8_Witness ==
  /\ last.op = "T" /\ last.dst = "R" /\ calls = 3
  /\ SameShape(R, M) /\ Written(R)
  /\ T # Empty /\ ~SameShape(T, M)
====
